---- MODULE Spec2Model ----
(***************************************************************************)
(* ez-hook: the request delivery engine (RequestClient) as a state machine. *)
(*                                                                         *)
(* One RequestClient instance (retryConfig, retryCount) and the send calls *)
(* made on it.  A send call is an async function: it runs from one await   *)
(* to the next without interruption, so every action below is one such     *)
(* run: StartSend (the caller invokes send, up to `await fetch`),          *)
(* FetchSettle (the fetch promise settles, up to `await delay` or the      *)
(* return), DelayElapse (the backoff timer fires, the recursive send runs  *)
(* up to its `await fetch`, the outer frame's finally runs), and the       *)
(* environment's steps TimeoutFire and AbortSignal.                        *)
(*                                                                         *)
(* JavaScript numbers that may be fractional (seconds, the jitter draw)    *)
(* are fixed-point integers with three decimals: the number x is stored as *)
(* 1000 * x.                                                               *)
(***************************************************************************)
EXTENDS Integers, Sequences, FiniteSets, TLC

VARIABLES
    ctorArg,      \* the Partial<RetryConfig> the constructor was given
    retryConfig,  \* this.retryConfig
    retryCount,   \* this.retryCount
    sendsStarted, \* number of top-level send calls issued so far
    sends,        \* per call: the state of one top-level send (see IdleCall)
    hook,         \* the Webhook that owns the client (see NewWebhook)
    webhookUrl    \* this.webhookUrl

vars == <<ctorArg, retryConfig, retryCount, sendsStarted, sends, hook, webhookUrl>>

----------------------------------------------------------------------------
(* Bounds of the model *)

\* the largest maxRetries handed to the constructor
MaxRetriesBound == 2
\* the number of send calls issued one after the other on the instance
MaxSends == 2
\* the number of embeds with fields in one message
MaxSpecialEmbeds == 1

(* Program constants *)
DefaultMaxRetries == 3
DefaultBaseDelay == 1000
DefaultMaxDelay == 60000

----------------------------------------------------------------------------
(* Optional values: undefined is the empty sequence *)
None == <<>>
Some(v) == <<v>>
IsSome(o) == Len(o) = 1
Get(o) == o[1]

(* Fixed-point JavaScript numbers *)
Num(k) == k * 1000
\* a * b for two fixed-point numbers
Mul(a, b) == (a \div 1000) * b + ((a % 1000) * b) \div 1000
\* a * k and a / k for a fixed-point a and an integer literal k
TimesInt(a, k) == a * k
OverInt(a, k) == a \div k
Min(a, b) == IF a <= b THEN a ELSE b
Max(a, b) == IF a >= b THEN a ELSE b
RECURSIVE Pow2(_)
Pow2(n) == IF n = 0 THEN 1 ELSE 2 * Pow2(n - 1)

----------------------------------------------------------------------------
(* The calls *)
Calls == {1}
\* the calls of the runs in which sends overlap on the instance
AllCalls == {1, 2}

(* The constructor's arguments *)
WebhookUrl == "https://discord.com/api/webhooks/id/token"
MaxRetriesArgs == {None} \cup {Some(m) : m \in 0..MaxRetriesBound}
DelayArgs == [baseDelay : {None, Some(500)}, maxDelay : {None, Some(1500)}]
CtorArgs == { [maxRetries |-> m, baseDelay |-> d.baseDelay, maxDelay |-> d.maxDelay] :
                m \in MaxRetriesArgs, d \in DelayArgs }

DEFAULT_RETRY_CONFIG ==
    [maxRetries |-> DefaultMaxRetries, baseDelay |-> DefaultBaseDelay,
     maxDelay |-> DefaultMaxDelay]

\* faulty variant: the spread order is reversed, the defaults win
Constructor_DefaultsWin(arg) ==
    [f \in {"maxRetries", "baseDelay", "maxDelay"} |-> DEFAULT_RETRY_CONFIG[f]]

\* { ...DEFAULT_RETRY_CONFIG, ...retryConfig }
Constructor(arg) ==
    [f \in {"maxRetries", "baseDelay", "maxDelay"} |->
        IF IsSome(arg[f]) THEN Get(arg[f]) ELSE DEFAULT_RETRY_CONFIG[f]]

----------------------------------------------------------------------------
(* What the endpoint and the transport can answer *)

\* a Response: status, the two hint headers, the body text, the reason phrase
Resp(st, ra, rs, tx, stx) ==
    [kind |-> "response", status |-> st, retryAfterHdr |-> ra, resetAfterHdr |-> rs,
     text |-> tx, statusText |-> stx, cls |-> "", message |-> ""]
\* a value thrown by fetch, by response.text() or by JSON.stringify
Thrown(c, m) ==
    [kind |-> "throw", status |-> 0, retryAfterHdr |-> None, resetAfterHdr |-> None,
     text |-> "", statusText |-> "", cls |-> c, message |-> m]

Responses ==
    { Resp(200, None, None, "ok", "OK"),
      Resp(204, None, None, "", "No Content"),
      Resp(204, Some("1"), None, "", "No Content"),
      Resp(304, None, None, "", "Not Modified"),
      Resp(404, None, None, "Unknown Webhook", "Not Found"),
      Resp(400, None, None, "", ""),
      Resp(429, Some("2"), None, "rate limited", "Too Many Requests"),
      Resp(429, None, Some("0.5"), "", "Too Many Requests"),
      Resp(429, Some("abc"), Some("1"), "", "Too Many Requests"),
      Resp(429, Some("0"), None, "", "Too Many Requests"),
      Resp(429, Some("-1"), None, "", "Too Many Requests"),
      Resp(429, None, None, "", ""),
      Resp(500, None, None, "", "Internal Server Error"),
      Resp(503, Some("1"), None, "unavailable", "Service Unavailable"),
      Resp(599, None, None, "", "") }

NetworkError == Thrown("Error", "Network failure")
EmptyError == Thrown("Error", "")
ThrownString == Thrown("string", "socket closed")
ThrownUndefined == Thrown("undefined", "")
AbortError == Thrown("Error", "The operation was aborted.")
SerializeError == Thrown("Error", "Converting circular structure to JSON")

NetworkFailures == {NetworkError, EmptyError, ThrownString, ThrownUndefined}

\* faulty variant: only 200 counts as success
ResponseOk_Only200(r) == r.status = 200
\* faulty variant: every status below 400 counts as success
ResponseOk_Below400(r) == r.status >= 200 /\ r.status < 400

\* response.ok: the status is in the range 200-299
ResponseOk(r) == r.status >= 200 /\ r.status <= 299

----------------------------------------------------------------------------
(* The arguments of send *)
\* an IWebhook object, and an object that refers to itself
Payload == [content |-> Some(5), embeds |-> None]
Cyclic == [cyclic |-> TRUE]
Requests == { [method |-> "GET", data |-> Cyclic],
              [method |-> "POST", data |-> Payload],
              [method |-> "PATCH", data |-> Payload],
              [method |-> "POST", data |-> Cyclic] }
\* JSON.stringify(data) of a serializable value: its JSON text
JSONStringify(data) == [json |-> data]
\* init.headers: the value given for each header name (None: not given)
HeaderNames == {"Content-Type", "X-Trace"}
NoHeaders == [n \in HeaderNames |-> None]
CustomHeaders == [n \in HeaderNames |->
                    IF n = "Content-Type" THEN Some("text/plain") ELSE Some("t1")]
\* init: timeoutMs (0: not given), the state of init.signal when send is called,
\* and init.headers
Inits == [timeoutMs : {0, 5000}, signal : {"none", "live", "aborted"},
          headers : {NoHeaders}]
         \cup {[timeoutMs |-> 0, signal |-> "none", headers |-> CustomHeaders]}

----------------------------------------------------------------------------
(* Parsing the retry hint *)

NaN == [kind |-> "NaN", v |-> 0]
Number(v) == [kind |-> "number", v |-> v]
\* Number.parseFloat on the header values the endpoint sends
ParseFloat(str) ==
    CASE str = "1" -> Number(Num(1))
      [] str = "2" -> Number(Num(2))
      [] str = "0.5" -> Number(500)
      [] str = "0" -> Number(0)
      [] str = "-1" -> Number(0 - Num(1))
      [] OTHER -> NaN

\* headers.get('retry-after') ?? headers.get('x-ratelimit-reset-after') ?? undefined
RetryAfterHeader(r) ==
    IF IsSome(r.retryAfterHdr) THEN r.retryAfterHdr ELSE r.resetAfterHdr

\* retryAfterHeader ? Number.parseFloat(retryAfterHeader) : undefined
RetryAfterSeconds(r) ==
    LET h == RetryAfterHeader(r)
    IN  IF IsSome(h) /\ Get(h) # "" THEN Some(ParseFloat(Get(h))) ELSE None

\* faulty variant: the seconds are not converted to milliseconds
RetryAfterMs_Seconds(r) ==
    LET s == RetryAfterSeconds(r)
    IN  IF IsSome(s) /\ Get(s).kind = "number" /\ Get(s).v # 0
        THEN Some(Get(s).v)
        ELSE None

\* Number.isFinite(s) && s ? s * 1000 : undefined
RetryAfterMs(r) ==
    LET s == RetryAfterSeconds(r)
    IN  IF IsSome(s) /\ Get(s).kind = "number" /\ Get(s).v # 0
        THEN Some(TimesInt(Get(s).v, 1000))
        ELSE None

----------------------------------------------------------------------------
(* Retry policy *)

\* the values Math.random() takes in the model, in [0, 1)
Randoms == {0, 500, 999}

\* faulty variant: the exponent is the number of retries made before this one
Exponential_ZeroBased(count) ==
    Min(Num(retryConfig.maxDelay),
        TimesInt(Num(retryConfig.baseDelay), Pow2(Max(0, count - 1))))

\* calculateBackoff: the exponential term, with this.retryCount = count
Exponential(count) ==
    Min(Num(retryConfig.maxDelay), TimesInt(Num(retryConfig.baseDelay), Pow2(count)))

\* faulty variant: the jitter factor is 0.5 instead of 0.2
calculateBackoff_WideJitter(count, random) ==
    LET exponential == Exponential(count)
        jitter == Mul(Mul(exponential, 500), random - 500)
        withJitter == exponential + jitter
    IN  Max(0, withJitter)

\* calculateBackoff, with this.retryCount = count and Math.random() = random
calculateBackoff(count, random) ==
    LET exponential == Exponential(count)
        jitter == Mul(Mul(exponential, 200), random - 500)
        withJitter == exponential + jitter
    IN  Max(0, withJitter)

\* faulty variant: a rate limit is retried whatever the budget
shouldRetry_RateLimitFree(count, status) ==
    \/ status = 429
    \/ /\ count < retryConfig.maxRetries
       /\ (status = 0 \/ (status >= 500 /\ status < 600))
\* faulty variant: the budget test is off by one
shouldRetry_OffByOne(count, status) ==
    /\ count <= retryConfig.maxRetries
    /\ (status = 429 \/ status = 0 \/ (status >= 500 /\ status < 600))
\* faulty variant: every client error is retried, not only 429
shouldRetry_ClientErrors(count, status) ==
    /\ count < retryConfig.maxRetries
    /\ (status = 0 \/ (status >= 400 /\ status < 600))

\* shouldRetry, with this.retryCount = count
shouldRetry(count, status) ==
    /\ count < retryConfig.maxRetries
    /\ (status = 429 \/ status = 0 \/ (status >= 500 /\ status < 600))

\* delay(second): the milliseconds handed to setTimeout
delay(second) == TimesInt(second, 1000)

----------------------------------------------------------------------------
(* One top-level send call *)

IdleCall ==
    [ pc          |-> "idle",  \* "idle" | "fetch" | "delay" | "returned"
      req         |-> [method |-> "GET", data |-> Payload],
      init        |-> [timeoutMs |-> 0, signal |-> "none", headers |-> NoHeaders],
      signal      |-> "none",  \* init.signal now: "none" | "live" | "aborted"
      silent      |-> FALSE,   \* the endpoint never answers the fetches of this call
      frame       |-> 0,       \* the number of the attempt (send frame) running
      calls       |-> 0,       \* times fetch was invoked
      inflight    |-> {},      \* attempts whose fetch promise is pending
      sent        |-> None,    \* what the transport received last
      timers      |-> {},      \* attempts whose timeout timer is pending
      ctrlAborted |-> FALSE,   \* the running attempt's AbortController aborted
      delayMs     |-> None,    \* const delayMs of the retry that is waiting
      delayTimer  |-> None,    \* the pending backoff timer: its milliseconds
      waitBy      |-> "none",  \* what chose that wait: "hint" | "backoff"
      waits       |-> 0,       \* backoff waits begun
      settled     |-> 0,       \* attempts whose outcome was classified
      transient   |-> 0,       \* of those, how many were 429, 5xx or transport
      lastOutcome |-> None,    \* the outcome classified last
      result      |-> None,    \* the value send resolved with
      rejected    |-> None ]   \* the value send rejected with

\* the outcome is a rate limit, a server error or a transport failure
Transient(out) ==
    \/ out.kind = "throw" /\ out # SerializeError
    \/ out.kind = "response" /\ (out.status = 429 \/ out.status \in 500..599)

\* a state of the machine while one call runs: the instance's counter and the call
M(count, call) == [retryCount |-> count, call |-> call]

Observe(call, out) ==
    [call EXCEPT !.lastOutcome = Some(out),
                 !.settled = @ + 1,
                 !.transient = @ + (IF Transient(out) THEN 1 ELSE 0)]

\* faulty variant: the finally block does not clear the timer
Finally_KeepTimer(call, a) == call

\* finally { if (timeout) clearTimeout(timeout) } of attempt a
Finally(call, a) == [call EXCEPT !.timers = @ \ {a}]

\* return r from attempt a: the finally runs, the promise resolves
Return(call, a, r) ==
    [Finally(call, a) EXCEPT !.pc = "returned", !.result = Some(r)]

\* faulty variant: delay(...) is not awaited, the next attempt is issued at once
AwaitDelay_NoAwait(call, delayMs, by) ==
    [call EXCEPT !.pc = "fetch",
                 !.delayMs = Some(delayMs),
                 !.delayTimer = Some(delay(OverInt(delayMs, 1000))),
                 !.waitBy = by,
                 !.waits = @ + 1,
                 !.frame = @ + 1,
                 !.calls = @ + 1,
                 !.inflight = @ \cup {call.frame + 1}]

\* await delay(delayMs / 1000) in attempt a
AwaitDelay(call, delayMs, by) ==
    [call EXCEPT !.pc = "delay",
                 !.delayMs = Some(delayMs),
                 !.delayTimer = Some(delay(OverInt(delayMs, 1000))),
                 !.waitBy = by,
                 !.waits = @ + 1]

Truthy(str) == IF str = "" THEN None ELSE Some(str)

\* faulty variant: the success result reports 200 whatever the response status
OkResult_Status200(r) ==
    [ok |-> TRUE, status |-> 200, retryAfter |-> RetryAfterMs(r),
     bodyText |-> Truthy(r.text), error |-> None]

OkResult(r) ==
    [ok |-> TRUE, status |-> r.status, retryAfter |-> RetryAfterMs(r),
     bodyText |-> Truthy(r.text), error |-> None]

\* text || response.statusText || `HTTP ${response.status}`
ErrorText(r) ==
    IF r.text # "" THEN r.text
    ELSE IF r.statusText # "" THEN r.statusText
    ELSE "HTTP " \o ToString(r.status)

\* faulty variant: the failure result drops the retry hint
ErrorResult_NoHint(r) ==
    [ok |-> FALSE, status |-> r.status, retryAfter |-> None,
     bodyText |-> Truthy(r.text), error |-> Some(ErrorText(r))]

ErrorResult(r) ==
    [ok |-> FALSE, status |-> r.status, retryAfter |-> RetryAfterMs(r),
     bodyText |-> Truthy(r.text), error |-> Some(ErrorText(r))]

\* _error instanceof Error ? _error.message : _error ? String(_error) : ''
ErrorMessage(e) ==
    IF e.cls = "Error" THEN e.message
    ELSE IF e.cls = "string" THEN e.message
    ELSE ""

\* faulty variant: no 'Network error' fallback for an empty message
CatchResult_NoFallback(e) ==
    [ok |-> FALSE, status |-> 0, retryAfter |-> None, bodyText |-> None,
     error |-> Some(ErrorMessage(e))]

CatchResult(e) ==
    [ok |-> FALSE, status |-> 0, retryAfter |-> None, bodyText |-> None,
     error |-> Some(IF ErrorMessage(e) # "" THEN ErrorMessage(e) ELSE "Network error")]

\* faulty variant: the hint is the wait of every retry, whatever the status
OnResponse_HintAlways(m, a, r) ==
    LET call == Observe(m.call, r)
    IN  IF ResponseOk(r)
        THEN { M(0, Return(call, a, OkResult(r))) }
        ELSE IF shouldRetry(m.retryCount, r.status)
        THEN LET count == m.retryCount + 1
             IN  IF IsSome(RetryAfterMs(r))
                 THEN { M(count, AwaitDelay(call, Get(RetryAfterMs(r)), "hint")) }
                 ELSE { M(count, AwaitDelay(call, calculateBackoff(count, rnd), "backoff")) :
                          rnd \in Randoms }
        ELSE { M(0, Return(call, a, ErrorResult(r))) }

\* faulty variant: a success returns without this.retryCount = 0
OnResponse_NoResetOnOk(m, a, r) ==
    LET call == Observe(m.call, r)
    IN  IF ResponseOk(r)
        THEN { M(m.retryCount, Return(call, a, OkResult(r))) }
        ELSE IF shouldRetry(m.retryCount, r.status)
        THEN LET count == m.retryCount + 1
             IN  IF r.status = 429 /\ IsSome(RetryAfterMs(r))
                 THEN { M(count, AwaitDelay(call, Get(RetryAfterMs(r)), "hint")) }
                 ELSE { M(count, AwaitDelay(call, calculateBackoff(count, rnd), "backoff")) :
                          rnd \in Randoms }
        ELSE { M(0, Return(call, a, ErrorResult(r))) }

\* faulty variant: a failure returns without this.retryCount = 0
OnResponse_NoResetOnError(m, a, r) ==
    LET call == Observe(m.call, r)
    IN  IF ResponseOk(r)
        THEN { M(0, Return(call, a, OkResult(r))) }
        ELSE IF shouldRetry(m.retryCount, r.status)
        THEN LET count == m.retryCount + 1
             IN  IF r.status = 429 /\ IsSome(RetryAfterMs(r))
                 THEN { M(count, AwaitDelay(call, Get(RetryAfterMs(r)), "hint")) }
                 ELSE { M(count, AwaitDelay(call, calculateBackoff(count, rnd), "backoff")) :
                          rnd \in Randoms }
        ELSE { M(m.retryCount, Return(call, a, ErrorResult(r))) }

\* faulty variant: a 429 without a hint is not retried
OnResponse_429NeedsHint(m, a, r) ==
    LET call == Observe(m.call, r)
    IN  IF ResponseOk(r)
        THEN { M(0, Return(call, a, OkResult(r))) }
        ELSE IF /\ shouldRetry(m.retryCount, r.status)
                /\ (r.status = 429 => IsSome(RetryAfterMs(r)))
        THEN LET count == m.retryCount + 1
             IN  IF r.status = 429 /\ IsSome(RetryAfterMs(r))
                 THEN { M(count, AwaitDelay(call, Get(RetryAfterMs(r)), "hint")) }
                 ELSE { M(count, AwaitDelay(call, calculateBackoff(count, rnd), "backoff")) :
                          rnd \in Randoms }
        ELSE { M(0, Return(call, a, ErrorResult(r))) }

\* the try block of attempt a after fetch resolved with response r
OnResponse(m, a, r) ==
    LET call == Observe(m.call, r)
    IN  IF ResponseOk(r)
        THEN { M(0, Return(call, a, OkResult(r))) }
        ELSE IF shouldRetry(m.retryCount, r.status)
        THEN LET count == m.retryCount + 1
             IN  IF r.status = 429 /\ IsSome(RetryAfterMs(r))
                 THEN { M(count, AwaitDelay(call, Get(RetryAfterMs(r)), "hint")) }
                 ELSE { M(count, AwaitDelay(call, calculateBackoff(count, rnd), "backoff")) :
                          rnd \in Randoms }
        ELSE { M(0, Return(call, a, ErrorResult(r))) }

\* faulty variant: the catch block rethrows once the budget is spent
OnThrow_Rethrow(m, a, e) ==
    LET call == Observe(m.call, e)
    IN  IF shouldRetry(m.retryCount, 0)
        THEN LET count == m.retryCount + 1
             IN  { M(count, AwaitDelay(call, calculateBackoff(count, rnd), "backoff")) :
                     rnd \in Randoms }
        ELSE { M(0, [Finally(call, a) EXCEPT !.pc = "returned", !.rejected = Some(e)]) }

\* faulty variant: an abort is returned at once, without a retry
OnThrow_AbortFatal(m, a, e) ==
    LET call == Observe(m.call, e)
    IN  IF shouldRetry(m.retryCount, 0) /\ e # AbortError
        THEN LET count == m.retryCount + 1
             IN  { M(count, AwaitDelay(call, calculateBackoff(count, rnd), "backoff")) :
                     rnd \in Randoms }
        ELSE { M(0, Return(call, a, CatchResult(e))) }

\* faulty variant: the catch block returns without this.retryCount = 0
OnThrow_KeepCount(m, a, e) ==
    LET call == Observe(m.call, e)
    IN  IF shouldRetry(m.retryCount, 0)
        THEN LET count == m.retryCount + 1
             IN  { M(count, AwaitDelay(call, calculateBackoff(count, rnd), "backoff")) :
                     rnd \in Randoms }
        ELSE { M(m.retryCount, Return(call, a, CatchResult(e))) }

\* the catch block of attempt a, with the value e that was thrown
OnThrow(m, a, e) ==
    LET call == Observe(m.call, e)
    IN  IF shouldRetry(m.retryCount, 0)
        THEN LET count == m.retryCount + 1
             IN  { M(count, AwaitDelay(call, calculateBackoff(count, rnd), "backoff")) :
                     rnd \in Randoms }
        ELSE { M(0, Return(call, a, CatchResult(e))) }

\* headers: { 'Content-Type': 'application/json', ...headers }
MergedHeaders(headers) ==
    [n \in HeaderNames |->
        IF headers[n] # None THEN headers[n]
        ELSE IF n = "Content-Type" THEN Some("application/json") ELSE None]

\* faulty variant: the body is serialized for GET as well
FetchArgs_BodyOnGet(call) ==
    [url |-> webhookUrl,
     method |-> call.req.method,
     headers |-> MergedHeaders(call.init.headers),
     body |-> Some(JSONStringify(call.req.data)),
     signal |-> IF call.init.timeoutMs # 0 THEN "controller"
                ELSE IF call.signal # "none" THEN "external" ELSE "none"]

\* the request handed to fetch
FetchArgs(call) ==
    [url |-> webhookUrl,
     method |-> call.req.method,
     headers |-> MergedHeaders(call.init.headers),
     body |-> IF call.req.method = "GET" THEN None
              ELSE Some(JSONStringify(call.req.data)),
     signal |-> IF call.init.timeoutMs # 0 THEN "controller"
                ELSE IF call.signal # "none" THEN "external" ELSE "none"]

\* faulty variant: only the first attempt starts a timeout timer
Attempt_TimerOnce(m, a) ==
    LET c0 == [m.call EXCEPT !.frame = a,
                             !.delayMs = None,
                             !.delayTimer = None,
                             !.waitBy = "none",
                             !.ctrlAborted = FALSE,
                             !.timers = IF m.call.init.timeoutMs # 0 /\ a = 1
                                        THEN @ \cup {a} ELSE @]
    IN  IF c0.req.method # "GET" /\ c0.req.data = Cyclic
        THEN \* JSON.stringify throws inside the try block: fetch is not called
             OnThrow(M(m.retryCount, c0), a, SerializeError)
        ELSE { M(m.retryCount,
                 [c0 EXCEPT !.pc = "fetch",
                            !.calls = @ + 1,
                            !.inflight = @ \cup {a},
                            !.sent = Some(FetchArgs(c0))]) }

\* send(method, data, init) from its first line to `await fetch(...)`: attempt a
Attempt(m, a) ==
    LET c0 == [m.call EXCEPT !.frame = a,
                             !.delayMs = None,
                             !.delayTimer = None,
                             !.waitBy = "none",
                             !.ctrlAborted = FALSE,
                             !.timers = IF m.call.init.timeoutMs # 0
                                        THEN @ \cup {a} ELSE @]
    IN  IF c0.req.method # "GET" /\ c0.req.data = Cyclic
        THEN \* JSON.stringify throws inside the try block: fetch is not called
             OnThrow(M(m.retryCount, c0), a, SerializeError)
        ELSE { M(m.retryCount,
                 [c0 EXCEPT !.pc = "fetch",
                            !.calls = @ + 1,
                            !.inflight = @ \cup {a},
                            !.sent = Some(FetchArgs(c0))]) }

\* faulty variant: an aborted signal does not make the fetch reject
FetchAborted_Never(call) == FALSE

\* the signal fetch was given has aborted
FetchAborted(call) ==
    IF call.init.timeoutMs # 0 THEN call.ctrlAborted ELSE call.signal = "aborted"

\* how the pending fetch of a call can settle
Outcomes(call) ==
    IF FetchAborted(call) THEN {AbortError} ELSE Responses \cup NetworkFailures

\* the fetch promise of the running attempt settles with out
Settle(m, out) ==
    LET a == m.call.frame
        m1 == M(m.retryCount, [m.call EXCEPT !.inflight = @ \ {a}])
    IN  IF out.kind = "response" THEN OnResponse(m1, a, out) ELSE OnThrow(m1, a, out)

\* faulty variant: the wait ends in a status-0 result when the signal is aborted
Resume_CancelOnAbort(m) ==
    LET a == m.call.frame
    IN  IF m.call.signal = "aborted"
        THEN { M(0, Return(m.call, a, CatchResult(AbortError))) }
        ELSE { M(n.retryCount, Finally(n.call, a)) : n \in Attempt(m, a + 1) }

\* the backoff timer fires: `return this.send(method, data, init)` of attempt
\* a runs the next attempt up to its first await, then a's finally runs
Resume(m) ==
    LET a == m.call.frame
    IN  { M(n.retryCount, Finally(n.call, a)) : n \in Attempt(m, a + 1) }

----------------------------------------------------------------------------
(* The Webhook: its payload fields, with every string held by its length *)

\* new ValidationError(message, field, maxLength, actualLength)
ValidationError(field, maxLength, actualLength) ==
    [name |-> "ValidationError", field |-> field,
     maxLength |-> maxLength, actualLength |-> actualLength]

\* new WebhookError(message, statusCode, retryAfter) and its subclasses
WebhookError(statusCode, retryAfter) ==
    [name |-> "WebhookError", statusCode |-> statusCode, retryAfter |-> retryAfter]
RateLimitError(retryAfter) ==
    [name |-> "RateLimitError", statusCode |-> Some(429), retryAfter |-> retryAfter]
WebhookNotFoundError ==
    [name |-> "WebhookNotFoundError", statusCode |-> Some(404), retryAfter |-> None]

\* Embed.assertFieldName(name) and Embed.assertFieldValue(value), the checks
\* of Embed.addField: the error thrown, None when the check passes
assertFieldName(name) ==
    IF name > 256
    THEN Some(ValidationError("field.name", Some(256), Some(name)))
    ELSE None
assertFieldValue(value) ==
    IF value = 0
    THEN Some(ValidationError("field.value", None, None))
    ELSE IF value > 1024
    THEN Some(ValidationError("field.value", Some(1024), Some(value)))
    ELSE None

\* an IField and the IEmbed objects that Embed.toObject() hands to addEmbed:
\* without fields, with a field name of 256 characters, with 26 fields and
\* with a field value of 1025 characters
Field(name, value) == [name |-> name, value |-> value]
PlainEmbed == [fields |-> None]
LongNameEmbed == [fields |-> Some(<<Field(256, 5)>>)]
ManyFieldsEmbed == [fields |-> Some([i \in 1..26 |-> Field(4, 5)])]
LongValueEmbed == [fields |-> Some(<<Field(4, 1025)>>)]
Embeds == {PlainEmbed, LongNameEmbed, ManyFieldsEmbed, LongValueEmbed}
\* the lengths of the strings handed to setContent
ContentLengths == {5, 2000, 2001}

\* an isValid call: where it is, the fetch calls it made, the URL it fetched,
\* how the fetch settled and the value the promise resolved to
IdleProbe ==
    [pc |-> "idle", calls |-> 0, url |-> None, outcome |-> None, result |-> None]

\* faulty variant: only a success response resolves to true
isValidResult_OkOnly(out) == out.kind = "response" /\ ResponseOk(out)

\* isValid: .then(() => true).catch(() => false)
isValidResult(out) == out.kind = "response"

\* the Webhook after construction; lastCall and threw hold the last method
\* called on it and the error that call threw, assigned the protected fields
\* that were written without their setter
NewWebhook ==
    [content |-> None, embeds |-> None, assigned |-> {},
     lastCall |-> "none", threw |-> None, probe |-> IdleProbe]

\* a method call ends, having thrown err or returned
Called(h, method, err) == [h EXCEPT !.lastCall = method, !.threw = err]

\* faulty variant: a content of exactly 2000 characters is refused
setContent_OffByOne(h, content) ==
    IF content >= 2000
    THEN Called(h, "setContent",
                Some(ValidationError("content", Some(2000), Some(content))))
    ELSE Called([h EXCEPT !.content = Some(content)], "setContent", None)

\* Webhook.setContent(content)
setContent(h, content) ==
    IF content > 2000
    THEN Called(h, "setContent",
                Some(ValidationError("content", Some(2000), Some(content))))
    ELSE Called([h EXCEPT !.content = Some(content)], "setContent", None)

\* faulty variant: an eleventh embed is pushed
addEmbed_OffByOne(h, embed) ==
    IF h.embeds = None
    THEN Called([h EXCEPT !.embeds = Some(<<embed>>)], "addEmbed", None)
    ELSE IF Len(Get(h.embeds)) <= 10
    THEN Called([h EXCEPT !.embeds = Some(Append(Get(h.embeds), embed))],
                "addEmbed", None)
    ELSE Called(h, "addEmbed", Some(ValidationError("embeds", Some(10), None)))

\* Webhook.addEmbed(embed), with embed.toObject() = embed
addEmbed(h, embed) ==
    IF h.embeds = None
    THEN Called([h EXCEPT !.embeds = Some(<<embed>>)], "addEmbed", None)
    ELSE IF Len(Get(h.embeds)) < 10
    THEN Called([h EXCEPT !.embeds = Some(Append(Get(h.embeds), embed))],
                "addEmbed", None)
    ELSE Called(h, "addEmbed", Some(ValidationError("embeds", Some(10), None)))

\* the first error of a sequence of optional errors
FirstError(errs) ==
    IF \E i \in DOMAIN errs : errs[i] # None
    THEN errs[CHOOSE i \in DOMAIN errs :
                 errs[i] # None /\ \A j \in 1..(i - 1) : errs[j] = None]
    ELSE None

\* validate: the checks of one field
FieldError(field) ==
    IF field.name > 255
    THEN Some(ValidationError("field.name", Some(255), Some(field.name)))
    ELSE IF field.value > 1024
    THEN Some(ValidationError("field.value", Some(1024), Some(field.value)))
    ELSE None

\* validate: the checks of one embed
EmbedError(embed) ==
    LET fields == IF embed.fields = None THEN <<>> ELSE Get(embed.fields)
    IN  IF Len(fields) > 25
        THEN Some(ValidationError("fields", Some(25), None))
        ELSE FirstError([i \in 1..Len(fields) |-> FieldError(fields[i])])

\* faulty variant: the embeds are not looked into
validate_NoEmbedChecks(h) ==
    LET embeds == IF h.embeds = None THEN <<>> ELSE Get(h.embeds)
    IN  IF (IF h.content = None THEN 0 ELSE Get(h.content)) > 2000
        THEN Some(ValidationError("content", Some(2000), h.content))
        ELSE IF Len(embeds) > 10
        THEN Some(ValidationError("embeds", Some(10), None))
        ELSE None

\* Webhook.validate(): the error it throws, None when it returns
validate(h) ==
    LET embeds == IF h.embeds = None THEN <<>> ELSE Get(h.embeds)
    IN  IF (IF h.content = None THEN 0 ELSE Get(h.content)) > 2000
        THEN Some(ValidationError("content", Some(2000), h.content))
        ELSE IF Len(embeds) > 10
        THEN Some(ValidationError("embeds", Some(10), None))
        ELSE FirstError([i \in 1..Len(embeds) |-> EmbedError(embeds[i])])

\* Webhook.toObject(): the fields of the payload that the model holds
toObject(h) == [content |-> h.content, embeds |-> h.embeds]

----------------------------------------------------------------------------
(* Actions *)

Step(c, m) ==
    /\ retryCount' = m.retryCount
    /\ sends' = [sends EXCEPT ![c] = m.call]

\* a caller invokes send(method, data, init) while no other send is running
StartSend(c) ==
    /\ sendsStarted < MaxSends
    /\ \A d \in Calls : sends[d].pc \in {"idle", "returned"}
    /\ \E rq \in Requests, ini \in Inits :
         \E m \in Attempt(M(retryCount,
                            [IdleCall EXCEPT !.req = rq, !.init = ini,
                                             !.signal = ini.signal]), 1) :
            Step(c, m)
    /\ sendsStarted' = sendsStarted + 1
    /\ UNCHANGED <<webhookUrl, hook, ctorArg, retryConfig>>

\* the pending fetch settles and send runs on to its next await or its return
FetchSettle(c) ==
    /\ sends[c].pc = "fetch"
    /\ \E out \in Outcomes(sends[c]) :
         \E m \in Settle(M(retryCount, sends[c]), out) : Step(c, m)
    /\ UNCHANGED <<webhookUrl, hook, ctorArg, retryConfig, sendsStarted>>

\* the backoff timer fires and the next attempt starts
DelayElapse(c) ==
    /\ sends[c].pc = "delay"
    /\ \E m \in Resume(M(retryCount, sends[c])) : Step(c, m)
    /\ UNCHANGED <<webhookUrl, hook, ctorArg, retryConfig, sendsStarted>>

\* a pending timeout timer fires: () => controller?.abort()
TimeoutFire(c) ==
    /\ \E a \in sends[c].timers :
         sends' = [sends EXCEPT ![c].timers = @ \ {a},
                                ![c].ctrlAborted = @ \/ (a \in sends[c].inflight)]
    /\ UNCHANGED <<webhookUrl, hook, ctorArg, retryConfig, retryCount, sendsStarted>>

\* the caller aborts the external signal while the send is running
AbortSignal(c) ==
    /\ sends[c].pc \in {"fetch", "delay"}
    /\ sends[c].signal = "live"
    /\ sends' = [sends EXCEPT ![c].signal = "aborted"]
    /\ UNCHANGED <<webhookUrl, hook, ctorArg, retryConfig, retryCount, sendsStarted>>

Init ==
    /\ ctorArg \in CtorArgs
    /\ retryConfig = Constructor(ctorArg)
    /\ retryCount = 0
    /\ sendsStarted = 0
    /\ sends = [c \in AllCalls |-> IdleCall]
    /\ hook = NewWebhook
    /\ webhookUrl = WebhookUrl

Next ==
    \E c \in Calls :
        \/ StartSend(c)
        \/ FetchSettle(c)
        \/ DelayElapse(c)
        \/ TimeoutFire(c)
        \/ AbortSignal(c)

Spec == Init /\ [][Next]_vars

\* faulty variant: the budget that is left is returned as maxRetries
getRetryConfig_Remaining ==
    [retryConfig EXCEPT !.maxRetries = @ - retryCount]

\* Webhook.getRetryConfig(): return this.client.retryConfig
getRetryConfig == retryConfig

----------------------------------------------------------------------------
(* Overlapping sends: callers issue send without awaiting the one before *)

\* the outcomes of a fetch in these runs
FewOutcomes ==
    { Resp(200, None, None, "ok", "OK"),
      Resp(404, None, None, "Unknown Webhook", "Not Found"),
      Resp(429, Some("2"), None, "rate limited", "Too Many Requests"),
      Resp(500, None, None, "", "Internal Server Error"),
      NetworkError }
\* init of these sends: without and with timeoutMs
OverlapInits == [timeoutMs : {0, 5000}, signal : {"none"}, headers : {NoHeaders}]

\* how the pending fetch of a call can settle: at once when its signal has
\* aborted, never by itself when the endpoint is silent
OverlapOutcomes(call) ==
    IF FetchAborted(call) THEN {AbortError}
    ELSE IF call.silent THEN {}
    ELSE FewOutcomes

\* a caller invokes send while other sends may be running; an endpoint that
\* never answers is met by sends that were given timeoutMs
StartOverlap(c) ==
    /\ sends[c].pc = "idle"
    /\ \E ini \in OverlapInits, silent \in BOOLEAN :
         /\ silent => ini.timeoutMs # 0
         /\ \E m \in Attempt(M(retryCount,
                               [IdleCall EXCEPT
                                  !.req = [method |-> "POST", data |-> Payload],
                                  !.init = ini, !.signal = ini.signal,
                                  !.silent = silent]), 1) :
               Step(c, m)
    /\ sendsStarted' = sendsStarted + 1
    /\ UNCHANGED <<webhookUrl, hook, ctorArg, retryConfig>>

\* the pending fetch of a call settles
Respond(c) ==
    /\ sends[c].pc = "fetch"
    /\ \E out \in OverlapOutcomes(sends[c]) :
         \E m \in Settle(M(retryCount, sends[c]), out) : Step(c, m)
    /\ UNCHANGED <<webhookUrl, hook, ctorArg, retryConfig, sendsStarted>>

\* an instance built with { maxRetries: 0..MaxRetriesBound }
InitOverlap ==
    /\ Init
    /\ ctorArg.maxRetries # None
    /\ ctorArg.baseDelay = None
    /\ ctorArg.maxDelay = None

NextOverlap ==
    \E c \in AllCalls :
        \/ StartOverlap(c)
        \/ Respond(c)
        \/ DelayElapse(c)
        \/ TimeoutFire(c)

\* every fetch that can settle does, every timer that is pending fires
SpecOverlap ==
    /\ InitOverlap
    /\ [][NextOverlap]_vars
    /\ \A c \in AllCalls :
          /\ WF_vars(Respond(c))
          /\ WF_vars(DelayElapse(c))
          /\ WF_vars(TimeoutFire(c))

----------------------------------------------------------------------------
(* The Webhook in use: a caller builds a message, then sends it *)

\* the number of embeds of the message that have fields
SpecialEmbeds(h) ==
    LET embeds == IF h.embeds = None THEN <<>> ELSE Get(h.embeds)
    IN  Cardinality({i \in 1..Len(embeds) : embeds[i] # PlainEmbed})

\* the message is still being built: nothing has been handed to the client
Building == sendsStarted = 0 /\ \A c \in Calls : sends[c].pc = "idle"

\* webhook.setContent('a'.repeat(content))
SetContent(content) ==
    /\ Building
    /\ hook' = setContent(hook, content)
    /\ UNCHANGED <<webhookUrl, ctorArg, retryConfig, retryCount, sendsStarted, sends>>

\* webhook.addEmbed(embed)
AddEmbed(embed) ==
    /\ Building
    /\ embed # PlainEmbed => SpecialEmbeds(hook) < MaxSpecialEmbeds
    /\ hook' = addEmbed(hook, embed)
    /\ UNCHANGED <<webhookUrl, ctorArg, retryConfig, retryCount, sendsStarted, sends>>

\* the protected field content is written without setContent
AssignContent ==
    /\ Building
    /\ hook' = [hook EXCEPT !.content = Some(2001),
                            !.assigned = @ \cup {"content"},
                            !.lastCall = "none", !.threw = None]
    /\ UNCHANGED <<webhookUrl, ctorArg, retryConfig, retryCount, sendsStarted, sends>>

\* the protected field embeds is written without addEmbed
AssignEmbeds ==
    /\ Building
    /\ hook' = [hook EXCEPT !.embeds = Some([i \in 1..11 |-> PlainEmbed]),
                            !.assigned = @ \cup {"embeds"},
                            !.lastCall = "none", !.threw = None]
    /\ UNCHANGED <<webhookUrl, ctorArg, retryConfig, retryCount, sendsStarted, sends>>

\* Webhook.send(): this.validate(), then this.client.send('POST', this.toObject())
WebhookSend(c) ==
    /\ sendsStarted < MaxSends
    /\ \A d \in Calls : sends[d].pc \in {"idle", "returned"}
    /\ LET err == validate(hook)
       IN  IF err # None
           THEN /\ hook' = Called(hook, "send", err)
                /\ UNCHANGED <<retryCount, sendsStarted, sends>>
           ELSE /\ hook' = Called(hook, "send", None)
                /\ \E m \in Attempt(M(retryCount,
                                      [IdleCall EXCEPT
                                         !.req = [method |-> "POST",
                                                  data |-> toObject(hook)]]), 1) :
                      Step(c, m)
                /\ sendsStarted' = sendsStarted + 1
    /\ UNCHANGED <<webhookUrl, ctorArg, retryConfig>>

\* a Webhook built with { maxRetries: 1 }
InitWebhook ==
    /\ Init
    /\ ctorArg = [maxRetries |-> Some(1), baseDelay |-> None, maxDelay |-> None]

NextWebhook ==
    \/ \E content \in ContentLengths : SetContent(content)
    \/ \E embed \in Embeds : AddEmbed(embed)
    \/ AssignContent
    \/ AssignEmbeds
    \/ \E c \in Calls :
          \/ WebhookSend(c)
          \/ FetchSettle(c)
          \/ DelayElapse(c)

SpecWebhook == InitWebhook /\ [][NextWebhook]_vars

----------------------------------------------------------------------------
(* Managing the webhook: get, modify, validate and isValid next to send *)

\* the data of Webhook.get: '', and the options handed to Webhook.modify
NoData == [string |-> ""]
ModifyOptions == [name |-> "renamed"]

\* a call of the Webhook that goes to this.client.send(method, data)
ClientSend(c, name, method, data) ==
    /\ sendsStarted < MaxSends
    /\ \A d \in Calls : sends[d].pc \in {"idle", "returned"}
    /\ hook' = Called(hook, name, None)
    /\ \E m \in Attempt(M(retryCount,
                          [IdleCall EXCEPT
                             !.req = [method |-> method, data |-> data]]), 1) :
          Step(c, m)
    /\ sendsStarted' = sendsStarted + 1
    /\ UNCHANGED <<webhookUrl, ctorArg, retryConfig>>

\* Webhook.get(): this.client.send('GET', '')
WebhookGet(c) == ClientSend(c, "get", "GET", NoData)

\* Webhook.modify(options): this.client.send('PATCH', options)
WebhookModify(c) == ClientSend(c, "modify", "PATCH", ModifyOptions)

\* webhook.validate()
Validate ==
    /\ hook.lastCall # "validate"
    /\ hook' = Called(hook, "validate", validate(hook))
    /\ UNCHANGED <<webhookUrl, ctorArg, retryConfig, retryCount, sendsStarted, sends>>

\* Webhook.isValid(): fetch(this.client.webhookUrl)
IsValid ==
    /\ hook.probe.pc = "idle"
    /\ hook' = [hook EXCEPT !.probe = [IdleProbe EXCEPT !.pc = "fetch",
                                                        !.calls = 1,
                                                        !.url = Some(webhookUrl)]]
    /\ UNCHANGED <<webhookUrl, ctorArg, retryConfig, retryCount, sendsStarted, sends>>

\* the fetch of isValid settles
ProbeSettle ==
    /\ hook.probe.pc = "fetch"
    /\ \E out \in FewOutcomes :
         hook' = [hook EXCEPT !.probe.pc = "resolved",
                              !.probe.outcome = Some(out),
                              !.probe.result = Some(isValidResult(out))]
    /\ UNCHANGED <<webhookUrl, ctorArg, retryConfig, retryCount, sendsStarted, sends>>

NextManage ==
    \/ Validate
    \/ IsValid
    \/ ProbeSettle
    \/ \E c \in Calls :
          \/ WebhookSend(c)
          \/ WebhookGet(c)
          \/ WebhookModify(c)
          \/ FetchSettle(c)
          \/ DelayElapse(c)

SpecManage == InitWebhook /\ [][NextManage]_vars

----------------------------------------------------------------------------
(* Properties *)

Returned(c) == sends[c].pc = "returned"
Res(c) == Get(sends[c].result)
Last(c) == Get(sends[c].lastOutcome)
Is2xx(out) == out.kind = "response" /\ out.status \in 200..299
\* the milliseconds a hint header asks for, for the header values that are valid
HintMs(str) ==
    CASE str = "1" -> 1000
      [] str = "2" -> 2000
      [] str = "0.5" -> 500
      [] OTHER -> 0
\* the hint header of a response: retry-after, else x-ratelimit-reset-after
HintHeader(out) ==
    IF out.retryAfterHdr # None THEN out.retryAfterHdr ELSE out.resetAfterHdr
HasValidHint(out) ==
    /\ out.kind = "response"
    /\ HintHeader(out) # None
    /\ HintMs(Get(HintHeader(out))) > 0

\* C1: a send whose every attempt ended in a retryable outcome (429, 5xx or a
\* transport failure) has made exactly maxRetries + 1 network calls when it
\* returns, and returns ok = false.
C1_BoundedRetries ==
    \A c \in Calls :
        (Returned(c) /\ sends[c].transient = sends[c].settled) =>
            /\ sends[c].calls = retryConfig.maxRetries + 1
            /\ sends[c].result # None
            /\ ~Res(c).ok

C1_Witness ==
    \E c \in Calls :
        /\ Returned(c)
        /\ sends[c].transient = sends[c].settled
        /\ retryConfig.maxRetries = 2
        /\ sends[c].calls = 3
        /\ Last(c).status = 429

\* C2: send never rejects: whatever the responses and the transport failures
\* (connection error, timeout abort, external cancellation), a send that has
\* ended resolved with a RequestResult.
C2_NeverRejects ==
    \A c \in Calls :
        /\ sends[c].rejected = None
        /\ Returned(c) =>
            /\ sends[c].result # None
            /\ Res(c).ok \in BOOLEAN
            /\ Res(c).status \in 0..599

C2_Witness ==
    \E c \in Calls :
        /\ Returned(c)
        /\ Last(c) = AbortError
        /\ sends[c].init.timeoutMs # 0
        /\ sends[c].settled > 1
        /\ sends[c].result # None

\* C3: when the first attempt of a send receives a 2xx response, the send has
\* returned after exactly one network call with ok = true and the response's
\* status, has begun no backoff wait, and retryCount is 0.
C3_SuccessShortCircuit ==
    \A c \in Calls :
        (sends[c].settled = 1 /\ Is2xx(Last(c))) =>
            /\ Returned(c)
            /\ sends[c].calls = 1
            /\ sends[c].inflight = {}
            /\ Res(c).ok
            /\ Res(c).status = Last(c).status
            /\ sends[c].waits = 0
            /\ sends[c].delayTimer = None
            /\ retryCount = 0

C3_Witness ==
    \E c \in Calls :
        /\ sends[c].settled = 1
        /\ Last(c).kind = "response"
        /\ Last(c).status = 204
        /\ Returned(c)
        /\ Res(c).ok

\* C4: when an attempt receives a non-retryable status (3xx, or 4xx other than
\* 429), the send returns at once, whatever maxRetries and the remaining
\* budget: ok = false, the status is the response's, no request is in flight
\* and no retry is scheduled.
NonRetryableStatus(out) ==
    out.kind = "response" /\ out.status \in (300..499) \ {429}

C4_TerminalStatuses ==
    \A c \in Calls :
        (sends[c].lastOutcome # None /\ NonRetryableStatus(Last(c))) =>
            /\ Returned(c)
            /\ ~Res(c).ok
            /\ Res(c).status = Last(c).status
            /\ sends[c].inflight = {}
            /\ sends[c].delayTimer = None
            /\ sends[c].calls = sends[c].settled

C4_Witness ==
    \E c \in Calls :
        /\ Returned(c)
        /\ Last(c).kind = "response"
        /\ Last(c).status = 404
        /\ sends[c].settled = 2
        /\ retryConfig.maxRetries = 3
        /\ Res(c).status = 404

\* C5: after k <= maxRetries retryable failures followed by a 2xx response, the
\* send has returned after exactly k + 1 network calls with ok = true and the
\* status of the 2xx response.
C5_Recovery ==
    \A c \in Calls :
        ( /\ sends[c].lastOutcome # None
          /\ Is2xx(Last(c))
          /\ sends[c].transient = sends[c].settled - 1
          /\ sends[c].transient <= retryConfig.maxRetries ) =>
            /\ Returned(c)
            /\ sends[c].calls = sends[c].transient + 1
            /\ Res(c).ok
            /\ Res(c).status = Last(c).status

C5_Witness ==
    \E c \in Calls :
        /\ Returned(c)
        /\ Is2xx(Last(c))
        /\ Last(c).status = 204
        /\ sends[c].transient = 2
        /\ sends[c].settled = 3
        /\ sends[c].calls = 3
        /\ Res(c).ok

\* C6: every result send returns has ok = true exactly when its status is in
\* [200, 300); status 0 comes with ok = false.
C6_OutcomeShape ==
    \A c \in Calls :
        sends[c].result # None =>
            /\ Res(c).ok <=> (Res(c).status >= 200 /\ Res(c).status < 300)
            /\ Res(c).status = 0 => ~Res(c).ok

C6_Witness ==
    \E c \in Calls :
        /\ Returned(c)
        /\ Res(c).status = 304
        /\ ~Res(c).ok

\* C7: the attempts of one send are strictly sequential: at most one request
\* is in flight, it is the running attempt's, every earlier attempt has been
\* classified, and no request is in flight while a backoff wait is pending.
C7_Sequential ==
    \A c \in Calls :
        /\ Cardinality(sends[c].inflight) <= 1
        /\ sends[c].inflight # {} =>
            /\ sends[c].pc = "fetch"
            /\ sends[c].inflight = {sends[c].frame}
            /\ sends[c].settled = sends[c].frame - 1
            /\ sends[c].delayTimer = None
        /\ sends[c].delayTimer # None =>
            /\ sends[c].pc = "delay"
            /\ sends[c].inflight = {}
            /\ sends[c].settled = sends[c].frame
        /\ sends[c].calls <= sends[c].settled + Cardinality(sends[c].inflight)

C7_Witness ==
    \E c \in Calls :
        /\ sends[c].pc = "fetch"
        /\ sends[c].frame = 3
        /\ sends[c].inflight = {3}
        /\ sends[c].waits = 2
        /\ sends[c].settled = 2

\* C8: when an attempt received 429 with a valid retry hint and the send is
\* retrying, the pending wait is exactly the hint's seconds x 1000
\* milliseconds, chosen from the hint and not computed.
C8_HintPrecedence ==
    \A c \in Calls :
        ( /\ sends[c].pc = "delay"
          /\ Last(c).status = 429
          /\ HasValidHint(Last(c)) ) =>
            /\ sends[c].delayTimer = Some(Num(HintMs(Get(HintHeader(Last(c))))))
            /\ sends[c].waitBy = "hint"

C8_Witness ==
    \E c \in Calls :
        /\ sends[c].pc = "delay"
        /\ Last(c).status = 429
        /\ Last(c).resetAfterHdr = Some("0.5")
        /\ sends[c].delayTimer = Some(Num(500))
        /\ \A rnd \in Randoms : calculateBackoff(retryCount, rnd) # Num(500)

\* C9: a failed result carries the status, the retry hint and the body text of
\* the last attempt: 429 with its hint after an exhausted budget, status 0
\* with no retryAfter after a transport failure.
C9_LastFailureReturned ==
    \A c \in Calls :
        (Returned(c) /\ sends[c].result # None /\ ~Res(c).ok) =>
            /\ Res(c).status = Last(c).status
            /\ Res(c).retryAfter = RetryAfterMs(Last(c))
            /\ Res(c).bodyText = (IF Last(c).text = "" THEN None ELSE Some(Last(c).text))
            /\ HasValidHint(Last(c)) =>
                 Res(c).retryAfter = Some(Num(HintMs(Get(HintHeader(Last(c))))))
            /\ Last(c).kind = "throw" =>
                 Res(c).status = 0 /\ Res(c).retryAfter = None /\ Res(c).bodyText = None

C9_Witness ==
    \E c \in Calls :
        /\ Returned(c)
        /\ Res(c).status = 429
        /\ Res(c).retryAfter = Some(Num(2000))
        /\ Res(c).bodyText = Some("rate limited")
        /\ sends[c].settled = 4
        /\ sends[c].transient = 4

C11_PolicyMerge ==
    /\ getRetryConfig.maxRetries =
         (IF ctorArg.maxRetries = None THEN 3 ELSE Get(ctorArg.maxRetries))
    /\ getRetryConfig.baseDelay =
         (IF ctorArg.baseDelay = None THEN 1000 ELSE Get(ctorArg.baseDelay))
    /\ getRetryConfig.maxDelay =
         (IF ctorArg.maxDelay = None THEN 60000 ELSE Get(ctorArg.maxDelay))

C11_Witness ==
    /\ ctorArg = [maxRetries |-> Some(2), baseDelay |-> None, maxDelay |-> Some(1500)]
    /\ getRetryConfig = [maxRetries |-> 2, baseDelay |-> 1000, maxDelay |-> 1500]
    /\ \E c \in Calls : Returned(c) /\ sends[c].settled = 3

\* C12 as claimed: the wait between two consecutive attempts never exceeds
\* retryConfig.maxDelay milliseconds, whether it was computed or taken from
\* the 429 hint.
C12_MaxDelayCap ==
    \A c \in Calls :
        sends[c].delayTimer # None =>
            Get(sends[c].delayTimer) <= Num(retryConfig.maxDelay)

\* C13: every computed backoff delay d is >= 0, within 20% of the exponential
\* term e = min(maxDelay, baseDelay * 2^retryCount), and so at most
\* 1.2 * maxDelay: for every retryCount in 0..maxRetries and every jitter
\* draw, and for the delay of every retry that is waiting on computed backoff.
JitterDraws == {0, 1, 250, 499, 500, 501, 750, 999}
ExpectedExponential(count) ==
    LET grown == Num(retryConfig.baseDelay) * Pow2(count)
    IN  IF grown > Num(retryConfig.maxDelay) THEN Num(retryConfig.maxDelay) ELSE grown
BackoffInBounds(d, count) ==
    LET e == ExpectedExponential(count)
    IN  /\ d >= 0
        /\ 10 * d >= 8 * e
        /\ 10 * d <= 12 * e
        /\ 10 * d <= 12 * Num(retryConfig.maxDelay)

C13_BackoffBounds ==
    /\ \A count \in 0..retryConfig.maxRetries, rnd \in JitterDraws :
          BackoffInBounds(calculateBackoff(count, rnd), count)
    /\ \A c \in Calls :
          sends[c].waitBy = "backoff" =>
              BackoffInBounds(Get(sends[c].delayMs), retryCount)

C13_Witness ==
    \E c \in Calls :
        /\ sends[c].waitBy = "backoff"
        /\ retryCount = 2
        /\ retryConfig.maxDelay = 1500
        /\ ExpectedExponential(retryCount) = Num(1500)
        /\ Get(sends[c].delayMs) > Num(1500)

\* C14 as claimed: with both an external signal and timeoutMs, an in-flight
\* attempt whose external signal has been triggered is aborted: it settles as
\* an abort, never with a response.
C14_SignalAborts ==
    [][\A c \in Calls :
         ( /\ sends[c].pc = "fetch"
           /\ sends[c].init.timeoutMs # 0
           /\ sends[c].init.signal = "live"
           /\ sends[c].signal = "aborted"
           /\ sends'[c].settled = sends[c].settled + 1 ) =>
              sends'[c].lastOutcome = Some(AbortError)]_vars

\* C15: when timeoutMs is given, every attempt, the first and each retry, has
\* its own timer from its start: while the attempt is in flight either its
\* timer is pending or that timer has fired and aborted it, and no other timer
\* is pending or can abort it; an attempt its timer aborted fails as a
\* transport failure: it is retried while the budget lasts, and the final
\* result has status 0.
C15_PerAttemptTimeout ==
    \A c \in Calls :
        sends[c].init.timeoutMs # 0 =>
            /\ sends[c].timers \subseteq {sends[c].frame}
            /\ sends[c].pc = "fetch" =>
                  ((sends[c].frame \in sends[c].timers) <=> ~sends[c].ctrlAborted)
            /\ (sends[c].ctrlAborted /\ sends[c].pc = "fetch") =>
                  Outcomes(sends[c]) = {AbortError}
            /\ (sends[c].ctrlAborted /\ sends[c].pc # "fetch") =>
                  /\ Last(c) = AbortError
                  /\ Transient(Last(c))
                  /\ \/ sends[c].pc = "delay" /\ sends[c].waitBy = "backoff"
                     \/ /\ Returned(c)
                        /\ Res(c).status = 0
                        /\ ~Res(c).ok
                        /\ sends[c].waits = retryConfig.maxRetries

C15_Witness ==
    \E c \in Calls :
        /\ sends[c].init.timeoutMs # 0
        /\ sends[c].frame = 2
        /\ sends[c].waits = 2
        /\ sends[c].pc = "delay"
        /\ sends[c].ctrlAborted

\* C16: a send without timeoutMs whose signal is already aborted when it
\* starts returns ok = false, status = 0 after maxRetries + 1 attempts with a
\* backoff wait between them; every HTTP call it made failed as an abort.
C16_AbortedSignalRetries ==
    \A c \in Calls :
        ( /\ sends[c].init.signal = "aborted"
          /\ sends[c].init.timeoutMs = 0
          /\ Returned(c) ) =>
            /\ sends[c].rejected = None
            /\ ~Res(c).ok
            /\ Res(c).status = 0
            /\ sends[c].frame = retryConfig.maxRetries + 1
            /\ sends[c].waits = retryConfig.maxRetries
            /\ sends[c].req.data # Cyclic =>
                  /\ sends[c].calls = retryConfig.maxRetries + 1
                  /\ sends[c].settled = sends[c].calls
                  /\ Last(c) = AbortError

C16_Witness ==
    \E c \in Calls :
        /\ sends[c].init.signal = "aborted"
        /\ sends[c].init.timeoutMs = 0
        /\ Returned(c)
        /\ retryConfig.maxRetries = 2
        /\ sends[c].calls = 3
        /\ sends[c].waits = 2
        /\ Res(c).status = 0

\* C17 as claimed: an error raised before the HTTP call that is not a network
\* failure (a payload that cannot be serialized) is raised to the caller,
\* with no retry, no backoff wait and no use of the retry budget.
C17_NonNetworkFatal ==
    \A c \in Calls :
        sends[c].lastOutcome = Some(SerializeError) =>
            /\ sends[c].pc = "returned"
            /\ sends[c].rejected = Some(SerializeError)
            /\ sends[c].waits = 0
            /\ retryCount = 0

\* C18: what reaches fetch has the method of the call; for GET the body is
\* absent whatever data was passed, for POST and PATCH it is the JSON text of
\* data; the headers are the caller's over the default Content-Type; and this
\* is so for the first attempt and for every retry.
C18_RequestShape ==
    \A c \in Calls :
        sends[c].sent # None =>
            LET args == Get(sends[c].sent)
            IN  /\ args.method = sends[c].req.method
                /\ args.method = "GET" => args.body = None
                /\ args.method \in {"POST", "PATCH"} =>
                      args.body = Some(JSONStringify(sends[c].req.data))
                /\ \A n \in HeaderNames :
                      args.headers[n] =
                        (IF sends[c].init.headers[n] # None
                         THEN sends[c].init.headers[n]
                         ELSE IF n = "Content-Type"
                              THEN Some("application/json") ELSE None)

C18_Witness ==
    \E c \in Calls :
        /\ sends[c].req = [method |-> "GET", data |-> Cyclic]
        /\ sends[c].pc = "fetch"
        /\ sends[c].frame = 3
        /\ sends[c].calls = 3
        /\ Get(sends[c].sent).body = None
        /\ Get(sends[c].sent).method = "GET"

\* a payload within every limit that validate checks
WithinLimits(p) ==
    /\ p.content # None => Get(p.content) <= 2000
    /\ p.embeds # None =>
          /\ Len(Get(p.embeds)) <= 10
          /\ \A i \in 1..Len(Get(p.embeds)) :
                LET fields == Get(p.embeds)[i].fields
                IN  fields # None =>
                       /\ Len(Get(fields)) <= 25
                       /\ \A j \in 1..Len(Get(fields)) :
                             /\ Get(fields)[j].name <= 255
                             /\ Get(fields)[j].value <= 1024

\* C19: a payload over a limit that validate checks makes validate throw a
\* ValidationError; a Webhook.send that threw has made no request and left
\* the retry counter as it was; a Webhook.send that did not throw was given a
\* payload within the limits, and every payload that reached
\* RequestClient.send is within them.
C19_ValidationFirst ==
    /\ ~WithinLimits(toObject(hook)) =>
          /\ validate(hook) # None
          /\ Get(validate(hook)).name = "ValidationError"
    /\ (hook.lastCall = "send" /\ hook.threw # None) =>
          /\ Get(hook.threw).name = "ValidationError"
          /\ ~WithinLimits(toObject(hook))
          /\ sendsStarted = 0
          /\ retryCount = 0
          /\ \A c \in Calls : sends[c] = IdleCall
    /\ (hook.lastCall = "send" /\ hook.threw = None) =>
          /\ WithinLimits(toObject(hook))
          /\ sendsStarted >= 1
    /\ \A c \in Calls :
          sends[c].pc # "idle" =>
              /\ sends[c].req = [method |-> "POST", data |-> toObject(hook)]
              /\ WithinLimits(sends[c].req.data)

C19_Witness ==
    /\ hook.lastCall = "send"
    /\ hook.threw = Some(ValidationError("fields", Some(25), None))
    /\ hook.embeds # None
    /\ Len(Get(hook.embeds)) = 3
    /\ Get(hook.embeds)[3] = ManyFieldsEmbed
    /\ hook.content = Some(2000)
    /\ \A c \in Calls : sends[c].calls = 0

\* C20: while content is written by setContent only, the stored content has at
\* most 2000 characters; from every state a setContent call with more than
\* 2000 characters throws ValidationError and leaves content and embeds as
\* they are, and a call with at most 2000 characters, 2000 included, stores it
\* and leaves embeds as they are.
C20_ContentLimit ==
    /\ ("content" \notin hook.assigned /\ hook.content # None) =>
          Get(hook.content) <= 2000
    /\ \A content \in ContentLengths :
          LET after == setContent(hook, content)
          IN  /\ after.embeds = hook.embeds
              /\ after.assigned = hook.assigned
              /\ content > 2000 =>
                    /\ after.threw =
                         Some(ValidationError("content", Some(2000), Some(content)))
                    /\ after.content = hook.content
              /\ content <= 2000 =>
                    /\ after.threw = None
                    /\ after.content = Some(content)
    /\ (hook.lastCall = "setContent" /\ hook.threw = None) =>
          hook.content # None /\ Get(hook.content) <= 2000

C20_Witness ==
    /\ hook.lastCall = "setContent"
    /\ hook.threw = Some(ValidationError("content", Some(2000), Some(2001)))
    /\ hook.content = Some(2000)
    /\ hook.assigned = {}
    /\ hook.embeds # None

\* the embeds the Webhook holds
HeldEmbeds == IF hook.embeds = None THEN <<>> ELSE Get(hook.embeds)

\* C21: while embeds is written by addEmbed only, the Webhook holds at most 10
\* embeds; from every state an addEmbed call made while fewer than 10 are held
\* returns and appends its embed after the embeds held, and one made while 10
\* (or more) are held throws ValidationError and leaves the list as it is.
C21_EmbedLimit ==
    /\ "embeds" \notin hook.assigned => Len(HeldEmbeds) <= 10
    /\ \A embed \in Embeds :
          LET after == addEmbed(hook, embed)
              held == IF after.embeds = None THEN <<>> ELSE Get(after.embeds)
          IN  /\ after.content = hook.content
              /\ Len(HeldEmbeds) < 10 =>
                    /\ after.threw = None
                    /\ Len(held) = Len(HeldEmbeds) + 1
                    /\ SubSeq(held, 1, Len(HeldEmbeds)) = HeldEmbeds
                    /\ held[Len(held)] = embed
              /\ Len(HeldEmbeds) >= 10 =>
                    /\ after.threw = Some(ValidationError("embeds", Some(10), None))
                    /\ after.embeds = hook.embeds
    /\ (hook.lastCall = "addEmbed" /\ hook.threw # None) =>
          Len(HeldEmbeds) >= 10

C21_Witness ==
    /\ hook.lastCall = "addEmbed"
    /\ hook.threw = Some(ValidationError("embeds", Some(10), None))
    /\ hook.assigned = {}
    /\ Len(HeldEmbeds) = 10
    /\ HeldEmbeds[4] = LongNameEmbed
    /\ \A i \in (1..10) \ {4} : HeldEmbeds[i] = PlainEmbed

\* C22 as claimed: Webhook.validate rejects a field name only when it is
\* longer than 256 characters: every field that Embed.addField accepts passes
\* the field checks of validate.
C22_NameLimit256 ==
    \A i \in 1..Len(HeldEmbeds) :
        HeldEmbeds[i].fields # None =>
            \A j \in 1..Len(Get(HeldEmbeds[i].fields)) :
                LET field == Get(HeldEmbeds[i].fields)[j]
                IN  ( /\ assertFieldName(field.name) = None
                      /\ assertFieldValue(field.value) = None ) =>
                        FieldError(field) = None

\* C23 as claimed: when the final response of Webhook.send is not a success,
\* send rejects with a typed error: RateLimitError with the hint for 429,
\* WebhookNotFoundError for 404, WebhookError with the status otherwise.
C23_TypedErrors ==
    \A c \in Calls :
        ( /\ Returned(c)
          /\ Last(c).kind = "response"
          /\ Last(c).status >= 400 ) =>
            /\ sends[c].rejected # None
            /\ Get(sends[c].rejected) =
                 (IF Last(c).status = 429 THEN RateLimitError(RetryAfterMs(Last(c)))
                  ELSE IF Last(c).status = 404 THEN WebhookNotFoundError
                  ELSE WebhookError(Some(Last(c).status), None))

\* d is within the jitter of the pre-jitter delay e: at most 10% either way
WithinJitter(d, e) == 10 * d >= 9 * e /\ 10 * d <= 11 * e

\* C24 as claimed: the first retry of a send that waits on computed backoff
\* has the pre-jitter delay min(maxDelay, baseDelay), and the k-th one
\* min(maxDelay, baseDelay * 2^(k-1)).
C24_StartsAtBase ==
    \A c \in Calls :
        (sends[c].waitBy = "backoff" /\ sends[c].waits >= 1) =>
            WithinJitter(Get(sends[c].delayMs),
                         Min(Num(retryConfig.maxDelay),
                             Num(retryConfig.baseDelay) * Pow2(sends[c].waits - 1)))

\* C25: once a send has returned, whatever its outcome, retryCount is 0.
C25_CounterReset ==
    \A c \in Calls : Returned(c) => retryCount = 0

C25_Witness ==
    \E c \in Calls :
        /\ Returned(c)
        /\ retryCount = 0
        /\ sends[c].waits = 2
        /\ retryConfig.maxRetries = 2
        /\ Last(c) = NetworkError
        /\ Res(c).status = 0

\* C26: a retry that follows a 5xx response or a thrown error waits the
\* computed backoff of its retry number, also when the response carried a
\* valid retry-after or x-ratelimit-reset-after header.
C26_HintOnlyFor429 ==
    \A c \in Calls :
        ( /\ sends[c].pc = "delay"
          /\ ~(Last(c).kind = "response" /\ Last(c).status = 429) ) =>
            /\ sends[c].waitBy = "backoff"
            /\ WithinJitter(Get(sends[c].delayMs),
                            ExpectedExponential(sends[c].waits))

C26_Witness ==
    \E c \in Calls :
        /\ sends[c].pc = "delay"
        /\ Last(c).kind = "response"
        /\ Last(c).status = 503
        /\ HasValidHint(Last(c))
        /\ sends[c].waitBy = "backoff"
        /\ Get(sends[c].delayMs) # Num(HintMs(Get(HintHeader(Last(c)))))

\* C27: in a send, the k-th retry, counting hint retries too, has
\* retryCount = k while it waits, and if it waits on computed backoff its
\* pre-jitter delay is min(maxDelay, baseDelay * 2^k); that delay does not
\* decrease with k.
C27_BackoffExponent ==
    /\ \A c \in Calls :
          sends[c].pc = "delay" =>
              /\ retryCount = sends[c].waits
              /\ sends[c].waits \in 1..retryConfig.maxRetries
              /\ sends[c].waitBy = "backoff" =>
                    WithinJitter(Get(sends[c].delayMs),
                                 ExpectedExponential(sends[c].waits))
    /\ \A k \in 1..retryConfig.maxRetries :
          /\ Exponential(k) = ExpectedExponential(k)
          /\ Exponential(k - 1) <= Exponential(k)

C27_Witness ==
    \E c \in Calls :
        /\ sends[c].pc = "delay"
        /\ sends[c].waits = 2
        /\ sends[c].waitBy = "backoff"
        /\ Last(c).kind = "response"
        /\ Last(c).status = 429
        /\ retryConfig.baseDelay = 500
        /\ retryConfig.maxDelay = 60000
        /\ Get(sends[c].delayMs) = Num(2000)

\* C28 as claimed: the retryAfter of every result and every wait taken from a
\* hint is a positive number of milliseconds.
C28_HintPositive ==
    \A c \in Calls :
        /\ (sends[c].result # None /\ Res(c).retryAfter # None) =>
              Get(Res(c).retryAfter) > 0
        /\ sends[c].waitBy = "hint" => Get(sends[c].delayMs) > 0

\* C29: when a send has delivered its result, no timeout timer of any of its
\* attempts is pending.
C29_TimerCleared ==
    \A c \in Calls : Returned(c) => sends[c].timers = {}

C29_Witness ==
    \E c \in Calls :
        /\ Returned(c)
        /\ sends[c].init.timeoutMs # 0
        /\ sends[c].waits = 2
        /\ ~sends[c].ctrlAborted
        /\ Res(c).ok
        /\ sends[c].timers = {}

\* C30 as claimed: once the HTTP call of attempt N has settled its timeout
\* timer is not pending: not during the backoff wait that follows, and not
\* during attempt N+1.
C30_TimerCancelledOnSettle ==
    \A c \in Calls :
        /\ (sends[c].pc = "delay" /\ sends[c].calls = sends[c].frame) =>
              sends[c].timers = {}
        /\ sends[c].pc = "fetch" => sends[c].timers \subseteq {sends[c].frame}

\* C37: of two sends issued one after the other, the second starts with
\* retryCount = 0 and, like the first, runs with retryCount equal to the
\* number of retries it has made itself: its budget and its backoff exponents
\* do not depend on the send before it.
C37_IndependentBudgets ==
    \A c \in Calls :
        sends[c].pc \in {"fetch", "delay"} =>
            /\ retryCount = sends[c].waits
            /\ sends[c].frame =
                 sends[c].waits + (IF sends[c].pc = "fetch" THEN 1 ELSE 0)
            /\ sends[c].frame <= retryConfig.maxRetries + 1

C37_Witness ==
    \E c \in Calls :
        /\ sendsStarted = 2
        /\ sends[c].pc = "delay"
        /\ sends[c].waits = 2
        /\ retryCount = 2
        /\ retryConfig.maxRetries = 2
        /\ sends[c].waitBy = "backoff"
        /\ WithinJitter(Get(sends[c].delayMs), ExpectedExponential(2))

NoUsableHint(out) ==
    \/ HintHeader(out) = None
    \/ Get(HintHeader(out)) \in {"abc", "0"}

\* C40: a 429 without a usable hint that arrives while budget remains is
\* retried, and the wait before the retry is the computed backoff of its
\* retry number.
C40_RateLimitWithoutHint ==
    \A c \in Calls :
        ( /\ sends[c].lastOutcome # None
          /\ Last(c).kind = "response"
          /\ Last(c).status = 429
          /\ NoUsableHint(Last(c)) ) =>
            /\ sends[c].pc = "delay" =>
                  /\ sends[c].waitBy = "backoff"
                  /\ WithinJitter(Get(sends[c].delayMs),
                                  ExpectedExponential(sends[c].waits))
            /\ Returned(c) => sends[c].waits = retryConfig.maxRetries

C40_Witness ==
    \E c \in Calls :
        /\ sends[c].pc = "delay"
        /\ Last(c).kind = "response"
        /\ Last(c).status = 429
        /\ Last(c).retryAfterHdr = Some("abc")
        /\ Last(c).resetAfterHdr = Some("1")
        /\ sends[c].waitBy = "backoff"
        /\ sends[c].waits = 1

\* the sends that have been issued, and those of them that met retryable
\* failures only
Issued == {c \in AllCalls : sends[c].pc # "idle"}
AllFailedRetryably(c) == sends[c].transient = sends[c].settled

\* C34: in every reachable state, overlapping sends included,
\* 0 <= retryCount <= maxRetries.
C34_CounterBounds ==
    retryCount >= 0 /\ retryCount <= retryConfig.maxRetries

C34_Witness ==
    /\ retryCount = retryConfig.maxRetries
    /\ retryConfig.maxRetries = 2
    /\ \A c \in AllCalls : sends[c].pc = "delay" /\ sends[c].waits = 1

\* C36: whenever no send is in progress, retryCount is 0, also after
\* overlapping sends with any mix of outcomes.
C36_QuiescentCounter ==
    (\A c \in AllCalls : sends[c].pc \in {"idle", "returned"}) => retryCount = 0

C36_Witness ==
    /\ \A c \in AllCalls : sends[c].pc = "returned"
    /\ retryCount = 0
    /\ Res(1).ok
    /\ ~Res(2).ok
    /\ sends[1].waits = 1
    /\ sends[2].waits = 2
    /\ retryConfig.maxRetries = 2

\* the network calls made by the sends issued so far
TotalCalls == sends[1].calls + sends[2].calls

\* C35: when the sends issued so far, overlapping or not, have all returned
\* and every attempt of theirs failed retryably, each of them returned
\* ok = false and together they made (maxRetries + 1) network calls per send.
C35_AttemptsConserved ==
    ( /\ Issued # {}
      /\ \A c \in Issued : Returned(c) /\ AllFailedRetryably(c) ) =>
        /\ \A c \in Issued : ~Res(c).ok
        /\ TotalCalls = Cardinality(Issued) * (retryConfig.maxRetries + 1)

C35_Witness ==
    /\ Issued = AllCalls
    /\ \A c \in AllCalls : Returned(c) /\ AllFailedRetryably(c)
    /\ retryConfig.maxRetries = 2
    /\ sends[1].calls = 2
    /\ sends[2].calls = 4

\* C32: two overlapping sends that meet retryable failures only share one
\* budget: when both have returned, a send that made fewer than
\* maxRetries + 1 network calls is matched by one that made more, and such a
\* pair of sends is reachable.
C32_SharedCounterHazard ==
    ( /\ \A c \in AllCalls : Returned(c) /\ AllFailedRetryably(c)
      /\ \E c \in AllCalls : sends[c].calls < retryConfig.maxRetries + 1 ) =>
        \E d \in AllCalls : sends[d].calls > retryConfig.maxRetries + 1

C32_Witness ==
    /\ \A c \in AllCalls : Returned(c) /\ AllFailedRetryably(c)
    /\ \A c \in AllCalls : sends[c].init.timeoutMs = 0
    /\ retryConfig.maxRetries = 2
    /\ sends[1].calls = 1
    /\ sends[2].calls = 5
    /\ Res(1).status = 500
    /\ Res(2).status = 0

\* C38: when every fetch that can settle does settle, every backoff wait
\* elapses and every pending timeout fires, every send that was issued
\* returns, overlapping sends included; a send with timeoutMs returns also
\* when the endpoint never answers.
C38_Termination ==
    \A c \in AllCalls : (sends[c].pc \in {"fetch", "delay"}) ~> Returned(c)

C38_Witness ==
    /\ \A c \in AllCalls : Returned(c)
    /\ sends[1].silent
    /\ sends[1].init.timeoutMs # 0
    /\ Res(1).status = 0
    /\ sends[1].calls >= 2
    /\ ~sends[2].silent
    /\ sends[2].calls >= 3

\* C31: no step of send, get, modify, validate or isValid changes what
\* getRetryConfig returns or the webhook URL.
C31_PolicyImmutable ==
    [][ /\ getRetryConfig' = getRetryConfig
        /\ retryConfig' = retryConfig
        /\ webhookUrl' = webhookUrl ]_vars

C31_Witness ==
    /\ sendsStarted = 2
    /\ \E c \in Calls :
          /\ Returned(c)
          /\ sends[c].req.method = "PATCH"
          /\ sends[c].waits = 1
    /\ hook.probe.pc = "resolved"
    /\ hook.lastCall = "validate"
    /\ getRetryConfig = [maxRetries |-> 1, baseDelay |-> 1000, maxDelay |-> 60000]
    /\ webhookUrl = WebhookUrl

====
